---- MODULE Spec2Model ----
(***************************************************************************)
(* chkdomain: concurrent WHOIS availability checks.                        *)
(*                                                                         *)
(* The repository carries four variants of the program, all modelled here; *)
(* the variable `variant` says which one is running:                       *)
(*   "pool"    src/chkdomain.go 1-221       numDomains workers             *)
(*   "pool32"  src/unnamed/part_000 1-141   a fixed number of workers      *)
(*   "poolmin" src/unnamed/part_000 143-324 min(100, N) workers            *)
(*   "tasks"   src/chkdomain.go 223-417     one goroutine per domain       *)
(*                                                                         *)
(* Text (domains, WHOIS responses, error messages, printed lines) is a     *)
(* sequence of strings.  A domain name is a sequence of one-character      *)
(* strings; literals of the source and texts supplied by the network are   *)
(* single elements.  Concatenation is \o.                                  *)
(***************************************************************************)
EXTENDS Integers, Sequences, FiniteSets

(***************************************************************************)
(* Bounds of the model.                                                    *)
(***************************************************************************)
\* Largest number of input domains.
MaxDomains == 2
\* Size of the fixed worker pool of "pool32".  The source sets workers = 32
\* (src/unnamed/part_000:28); the workers are anonymous and interchangeable,
\* and the model scales their number down.
FixedWorkers == 2
\* Longest text given to isDomainValid and getWhoisServer called on their own.
MaxLen == 7
\* Longest standard input given to readLines and readWords.
MaxStdin == 5
\* Longest sequence of conn.Read outcomes given to whois.
MaxReads == 3
\* Largest number of command-line arguments given to main.
MaxArgs == 2
\* The cap in minInt(100, len(domains)) and minimum(100, len(domains)).  The
\* source's cap is 100 (src/unnamed/part_000:131, 310); the model scales it
\* down with the number of domains, so that there are runs with more domains
\* than the cap.
PoolCap == 1

(***************************************************************************)
(* Program constants.                                                      *)
(***************************************************************************)
\* The {0,61} repetition of domainRE.
MaxInner == 61
\* The {2,} repetition of domainRE.
MinTld == 2

Variants == {"pool", "pool32", "poolmin", "tasks"}
PoolVariants == {"pool", "pool32", "poolmin"}

(***************************************************************************)
(* Domain validation: domainRE and isDomainValid.                          *)
(***************************************************************************)
Lower == {"a","b","c","d","e","f","g","h","i","j","k","l","m",
          "n","o","p","q","r","s","t","u","v","w","x","y","z"}
Upper == {"A","B","C","D","E","F","G","H","I","J","K","L","M",
          "N","O","P","Q","R","S","T","U","V","W","X","Y","Z"}
Digit == {"0","1","2","3","4","5","6","7","8","9"}
Alpha == Lower \cup Upper
AlNum == Alpha \cup Digit
Inner == AlNum \cup {"-", "."}

\* ^[a-zA-Z0-9](?:[a-zA-Z0-9-\.]{0,61}[a-zA-Z0-9])?\.[a-zA-Z]{2,}$
\* k is the position of the dot matched by the final \. of the pattern.
domainRE(d) ==
    \E k \in 1..Len(d) :
        /\ d[k] = "."
        /\ Len(d) - k >= MinTld
        /\ \A j \in (k+1)..Len(d) : d[j] \in Alpha
        /\ k >= 2
        /\ d[1] \in AlNum
        /\ (k - 1 >= 2) => /\ d[k-1] \in AlNum
                           /\ k - 3 <= MaxInner
                           /\ \A j \in 2..(k-2) : d[j] \in Inner

isDomainValid(domain) == domainRE(domain)

(***************************************************************************)
(* getWhoisServer.                                                         *)
(***************************************************************************)
\* strings.Split(s, sep) for a one-character sep
RECURSIVE SplitOn(_, _)
SplitOn(s, sep) ==
    IF \A j \in 1..Len(s) : s[j] # sep
    THEN <<s>>
    ELSE LET k == CHOOSE k \in 1..Len(s) :
                      s[k] = sep /\ \A j \in 1..(k-1) : s[j] # sep
         IN  <<SubSeq(s, 1, k-1)>> \o SplitOn(SubSeq(s, k+1, Len(s)), sep)

\* strings.Split(s, ".")
Split(s) == SplitOn(s, ".")

\* A getWhoisServer that joins two labels as soon as there are two.
getWhoisServerFromTwo(domain) ==
    LET segments == Split(domain)
        last     == segments[Len(segments)]
        tld      == IF Len(segments) >= 2
                    THEN segments[Len(segments)-1] \o <<".">> \o last
                    ELSE last
    IN  tld \o <<".whois-servers.net:43">>

getWhoisServer(domain) ==
    LET segments == Split(domain)
        last     == segments[Len(segments)]
        tld      == IF Len(segments) > 2
                    THEN segments[Len(segments)-1] \o <<".">> \o last
                    ELSE last
    IN  tld \o <<".whois-servers.net:43">>

(***************************************************************************)
(* isDomainAvailable.  A response is a sequence of phrases; availableRE    *)
(* matches when one of them, lower-cased, is one of its alternatives.      *)
(***************************************************************************)
\* strings.ToLower on the phrases the modelled servers send
ToLower(t) ==
    CASE t = "No match for" -> "no match for"
      [] t = "NOT FOUND"    -> "not found"
      [] OTHER              -> t

availableRE == {"is not registered", "is available", "no match for", "not found"}

isDomainAvailable(whoisText) ==
    \E j \in 1..Len(whoisText) : ToLower(whoisText[j]) \in availableRE

(***************************************************************************)
(* The network.  A peer is what the WHOIS server of one lookup does: the   *)
(* outcome of the dial, of the write, and of each successive read.         *)
(* A read returns (n, err); n is the text read (<<>> for zero bytes) and   *)
(* err is "nil", "EOF" or "err".  Peers is the set of servers a lookup may *)
(* meet; which one it meets shows as its calls return: peer[i] records the *)
(* outcomes lookup i has seen so far.                                      *)
(***************************************************************************)
Nil == <<>>
EOF == <<"EOF">>
connErrText == <<"dial tcp: connection refused">>
wrtErrText  == <<"write: broken pipe">>
readErrText == <<"read: connection reset by peer">>

\* The error value returned by conn.Read
ReadErr(e) == CASE e = "nil" -> Nil [] e = "EOF" -> EOF [] OTHER -> readErrText

Rd(n, e) == [n |-> n, err |-> e]

PeerDialErr  == [dial |-> "err",   write |-> "ok",  reads |-> <<>>]
PeerBlock    == [dial |-> "block", write |-> "ok",  reads |-> <<>>]
PeerWriteErr == [dial |-> "ok",    write |-> "err", reads |-> <<Rd(<<>>, "err")>>]
PeerReadErr  == [dial |-> "ok",    write |-> "ok",  reads |-> <<Rd(<<>>, "err")>>]
PeerZeroNil  == [dial |-> "ok",    write |-> "ok",
                 reads |-> <<Rd(<<>>, "nil"), Rd(<<"No match for">>, "EOF")>>]
PeerAvail    == [dial |-> "ok",    write |-> "ok",
                 reads |-> <<Rd(<<"No match for">>, "nil"), Rd(<<>>, "EOF")>>]
PeerUnavail  == [dial |-> "ok",    write |-> "ok",
                 reads |-> <<Rd(<<"Registrar:">>, "EOF")>>]

Peers == {PeerDialErr, PeerBlock, PeerWriteErr, PeerReadErr, PeerZeroNil,
          PeerAvail, PeerUnavail}

\* No call made yet.
NoPeer == [dial |-> "none", write |-> "none", reads |-> <<>>]

\* Server p can still be the one behind the outcomes h seen so far.
Consistent(h, p) ==
    /\ h.dial \in {"none", p.dial}
    /\ h.write \in {"none", p.write}
    /\ Len(h.reads) <= Len(p.reads)
    /\ SubSeq(p.reads, 1, Len(h.reads)) = h.reads

(***************************************************************************)
(* Inputs.                                                                 *)
(***************************************************************************)
Names == { <<"a", ".", "c", "o">>, <<"-", "a", ".", "c", "o">> }

DomainLists == UNION { [1..n -> Names] : n \in 0..MaxDomains }

VARIABLES
    variant,        \* which program is running
    debug,          \* the -debug flag
    domains,        \* main's domains, after any read from stdin
    numDomains,     \* main's numDomains ("pool", "tasks") when the jobs start
    nextJob,        \* makeJobs: index of the next domain to queue
    jobs,           \* the jobs channel (indices into domains)
    jobsClosed,
    ranging,        \* number of runJobs goroutines at `for job := range jobs`
    done,           \* number of signals in the done channel
    waited,         \* waitJobs: its loop counter i
    results,        \* the results channel
    resultsClosed,
    spawned,        \* "tasks": number of `go Job{...}.Run()` executed by main
    pc,             \* per domain: position of its Job.Run
    peer,           \* per domain: the server its lookup talks to
    conn,           \* per domain: "none", "open" or "closed"
    res,            \* per domain: whois' res buffer
    nread,          \* per domain: number of conn.Read calls that returned
    result,         \* per domain: Run's result variable
    runs,           \* per domain: number of times Job.Run was entered
    sends,          \* per domain: number of Results sent on results
    dials,          \* per domain: number of net.Dial calls
    reported,       \* ids of the results received by the reporter, in order
    printed,        \* lines written to stdout, in order
    published,      \* ids of the results sent on results, in order
    call,           \* a call of one function on its own: name, argument, value
    mainExited,     \* main has returned
    panicked        \* the process died of a panic

inputVars == <<variant, debug, domains, numDomains>>
poolVars  == <<nextJob, jobs, jobsClosed, ranging, done, waited>>
chanVars  == <<results, resultsClosed, published>>
jobVars   == <<pc, peer, conn, res, nread, result, runs, sends, dials>>
outVars   == <<reported, printed>>
runVars == <<inputVars, poolVars, chanVars, spawned, jobVars, outVars,
             mainExited, panicked>>
vars == <<runVars, call>>

N == Len(domains)
Ids == 1..N

minInt(x, y) == IF y < x THEN y ELSE x

\* A pool that starts one worker per domain, whatever their number.
workersUncapped ==
    CASE variant = "pool"    -> numDomains
      [] variant = "pool32"  -> FixedWorkers
      [] variant = "poolmin" -> N
      [] OTHER               -> 0

\* Number of runJobs goroutines main starts.
workers ==
    CASE variant = "pool"    -> numDomains
      [] variant = "pool32"  -> FixedWorkers
      [] variant = "poolmin" -> minInt(PoolCap, N)
      [] OTHER               -> 0

\* make(chan Job, ...)
jobsCap ==
    CASE variant = "pool"    -> numDomains
      [] variant = "pool32"  -> FixedWorkers
      [] variant = "poolmin" -> workers
      [] OTHER               -> 0

\* make(chan Result, ...)
resultsCap ==
    CASE variant = "pool"    -> numDomains
      [] variant = "pool32"  -> minInt(PoolCap, N)
      [] variant = "poolmin" -> workers
      [] OTHER               -> numDomains

\* make(chan struct{}, ...)
doneCap == workers

(***************************************************************************)
(* Job.Run and whois.                                                      *)
(***************************************************************************)
NoResult == [id |-> 0, domain |-> <<>>, output |-> <<>>, available |-> FALSE,
             err |-> Nil]

\* The Result Run builds from what whois returned.
RunResult(i, whoisOutput, err) ==
    IF err # Nil
    THEN [id |-> i, domain |-> domains[i], output |-> <<>>,
          available |-> FALSE, err |-> err]
    ELSE [id |-> i, domain |-> domains[i], output |-> whoisOutput,
          available |-> isDomainAvailable(whoisOutput), err |-> Nil]

invalidErr(d) ==
    IF variant = "pool32" THEN <<"invalid domain">>
    ELSE <<"invalid domain: ">> \o d

\* fmt.Sprint("error connecting to %v: %v", whoisServer, connErr) appends its
\* operands; fmt.Errorf of "tasks" formats them.
connectErr(d) ==
    CASE variant = "pool32" -> connErrText
      [] variant = "tasks"  ->
            <<"error connecting to ">> \o getWhoisServer(d) \o <<": ">> \o connErrText
      [] OTHER ->
            <<"error connecting to %v: %v">> \o getWhoisServer(d) \o connErrText

writeErr ==
    IF variant = "tasks" THEN <<"error writing to socket: ">> \o wrtErrText
    ELSE wrtErrText

\* A Run that returns without a result after a failed dial, in every variant.
afterDialErrReturns == "done"

\* What Run does after a failed dial: "pool32" returns at once, the others
\* get the error back from whois and go on to send the result.
afterDialErr == IF variant = "pool32" THEN "done" ELSE "send"

\* Whether "pool32" style Run ignores the outcome of conn.Write.
ignoresWriteErr == variant = "pool32"

\* defer conn.Close() exists in "pool32" only.
closesConn == variant = "pool32"

\* A Run that dials without checking the domain.
EnterUnchecked(i) ==
    /\ runs' = [runs EXCEPT ![i] = @ + 1]
    /\ pc' = [pc EXCEPT ![i] = "dial"]
    /\ result' = result

\* Run is entered for domain i: the goroutine checks the domain and goes on
\* to dial, or has its result at once.
Enter(i) ==
    /\ runs' = [runs EXCEPT ![i] = @ + 1]
    /\ IF isDomainValid(domains[i])
       THEN /\ pc' = [pc EXCEPT ![i] = "dial"]
            /\ result' = result
       ELSE /\ pc' = [pc EXCEPT ![i] = "send"]
            /\ result' = [result EXCEPT ![i] = RunResult(i, <<>>, invalidErr(domains[i]))]

\* Run of domain i returns: in a pool its worker is back at the range loop.
Returned == IF variant \in PoolVariants THEN ranging + 1 ELSE ranging

Live == ~mainExited /\ ~panicked

\* net.Dial
Dial(i) ==
    /\ Live
    /\ pc[i] = "dial"
    /\ peer[i] = NoPeer
    /\ \E p \in Peers :
        /\ peer' = [peer EXCEPT ![i].dial = p.dial]
        /\ dials' = [dials EXCEPT ![i] = @ + 1]
        /\ CASE p.dial = "ok" ->
                  /\ conn' = [conn EXCEPT ![i] = "open"]
                  /\ pc' = [pc EXCEPT ![i] = "write"]
                  /\ UNCHANGED <<result, ranging>>
             [] p.dial = "err" ->
                  /\ result' = [result EXCEPT ![i] = RunResult(i, <<>>, connectErr(domains[i]))]
                  /\ pc' = [pc EXCEPT ![i] = afterDialErr]
                  /\ ranging' = IF afterDialErr = "done" THEN Returned ELSE ranging
                  /\ UNCHANGED conn
             [] OTHER ->
                  UNCHANGED <<conn, pc, result, ranging>>
    /\ UNCHANGED <<call, inputVars, nextJob, jobs, jobsClosed, done, waited, chanVars,
                   spawned, res, nread, runs, sends, outVars, mainExited, panicked>>

\* conn.Write([]byte(domain + "\r\n"))
Write(i) ==
    /\ Live
    /\ pc[i] = "write"
    /\ \E p \in Peers :
        /\ Consistent(peer[i], p)
        /\ peer' = [peer EXCEPT ![i].write = p.write]
        /\ IF p.write = "ok" \/ ignoresWriteErr
           THEN /\ pc' = [pc EXCEPT ![i] = "read"]
                /\ result' = result
           ELSE /\ pc' = [pc EXCEPT ![i] = "send"]
                /\ result' = [result EXCEPT ![i] = RunResult(i, <<>>, writeErr)]
    /\ UNCHANGED <<call, inputVars, poolVars, chanVars, spawned, conn, res, nread,
                   runs, sends, dials, outVars, mainExited, panicked>>

\* What the read loop does with a read that returned (ev.n, ev.err), acc being
\* res with ev.n appended: "fail" (return the read error), "stop" (leave the
\* loop with acc) or "loop" (read again with acc).
readLoop(ev) ==
    IF variant = "pool32"
    THEN IF ev.err # "nil" THEN "stop" ELSE "loop"
    ELSE IF ev.n = <<>> /\ ev.err # "EOF" THEN "fail"
         ELSE IF ev.err = "EOF" THEN "stop" ELSE "loop"

\* One conn.Read of the read loop, and what the loop does with it.
Read(i) ==
    /\ Live
    /\ pc[i] = "read"
    /\ \E p \in Peers :
        /\ Consistent(peer[i], p)
        /\ nread[i] < Len(p.reads)
        /\ LET ev  == p.reads[nread[i] + 1]
               acc == res[i] \o ev.n
           IN  /\ peer' = [peer EXCEPT ![i].reads = Append(@, ev)]
               /\ nread' = [nread EXCEPT ![i] = @ + 1]
               /\ CASE readLoop(ev) = "fail" ->
                        /\ pc' = [pc EXCEPT ![i] = "send"]
                        /\ result' = [result EXCEPT ![i] = RunResult(i, <<>>, ReadErr(ev.err))]
                        /\ res' = res
                   [] readLoop(ev) = "stop" ->
                        /\ pc' = [pc EXCEPT ![i] = "send"]
                        /\ result' = [result EXCEPT ![i] = RunResult(i, acc, Nil)]
                        /\ res' = [res EXCEPT ![i] = acc]
                   [] OTHER ->
                        /\ res' = [res EXCEPT ![i] = acc]
                        /\ UNCHANGED <<pc, result>>
    /\ UNCHANGED <<call, inputVars, poolVars, chanVars, spawned, conn,
                   runs, sends, dials, outVars, mainExited, panicked>>

\* job.results <- result, and the return of Run.  A send on a closed channel
\* panics.
Send(i) ==
    /\ Live
    /\ pc[i] = "send"
    /\ IF resultsClosed
       THEN /\ panicked' = TRUE
            /\ UNCHANGED <<results, published, pc, sends, conn, ranging>>
       ELSE /\ Len(results) < resultsCap
            /\ results' = Append(results, result[i])
            /\ published' = Append(published, i)
            /\ pc' = [pc EXCEPT ![i] = "done"]
            /\ sends' = [sends EXCEPT ![i] = @ + 1]
            /\ conn' = IF closesConn /\ conn[i] = "open"
                       THEN [conn EXCEPT ![i] = "closed"] ELSE conn
            /\ ranging' = Returned
            /\ panicked' = panicked
    /\ UNCHANGED <<call, inputVars, nextJob, jobs, jobsClosed, done, waited, resultsClosed,
                   spawned, peer, res, nread, result, runs, dials, outVars, mainExited>>

(***************************************************************************)
(* The worker pool: makeJobs (mkJobs), runJobs, waitJobs.                  *)
(***************************************************************************)
\* jobs <- Job{domain, results}
makeJobs ==
    /\ Live
    /\ variant \in PoolVariants
    /\ ~jobsClosed
    /\ nextJob <= N
    /\ Len(jobs) < jobsCap
    /\ jobs' = Append(jobs, nextJob)
    /\ nextJob' = nextJob + 1
    /\ UNCHANGED <<call, inputVars, jobsClosed, ranging, done, waited, chanVars, spawned,
                   jobVars, outVars, mainExited, panicked>>

\* close(jobs)
makeJobsClose ==
    /\ Live
    /\ variant \in PoolVariants
    /\ ~jobsClosed
    /\ nextJob > N
    /\ jobsClosed' = TRUE
    /\ UNCHANGED <<call, inputVars, nextJob, jobs, ranging, done, waited, chanVars, spawned,
                   jobVars, outVars, mainExited, panicked>>

\* for job := range jobs { job.Run() }: a worker receives a job and enters Run
runJobs ==
    /\ Live
    /\ ranging > 0
    /\ jobs # <<>>
    /\ jobs' = Tail(jobs)
    /\ ranging' = ranging - 1
    /\ Enter(Head(jobs))
    /\ UNCHANGED <<call, inputVars, nextJob, jobsClosed, done, waited, chanVars, spawned,
                   peer, conn, res, nread, sends, dials, outVars, mainExited, panicked>>

\* A range loop that ends as soon as it finds the channel empty.
rangeEndsWhenEmpty(ch, closed) == ch = <<>>

\* `for x := range ch` ends when ch is closed and drained.
rangeEnds(ch, closed) == ch = <<>> /\ closed

\* The range loop of a worker ends and the worker sends on done.
runJobsDone ==
    /\ Live
    /\ ranging > 0
    /\ rangeEnds(jobs, jobsClosed)
    /\ done < doneCap
    /\ ranging' = ranging - 1
    /\ done' = done + 1
    /\ UNCHANGED <<call, inputVars, nextJob, jobs, jobsClosed, waited, chanVars, spawned,
                   jobVars, outVars, mainExited, panicked>>

\* A waitJobs loop that stops one signal short.
waitTargetShort == workers - 1

\* Number of done signals waitJobs receives before it closes results.
waitTarget == workers

\* <-done
waitJobs ==
    /\ Live
    /\ variant \in PoolVariants
    /\ waited < waitTarget
    /\ done > 0
    /\ done' = done - 1
    /\ waited' = waited + 1
    /\ UNCHANGED <<call, inputVars, nextJob, jobs, jobsClosed, ranging, chanVars, spawned,
                   jobVars, outVars, mainExited, panicked>>

\* close(results)
waitJobsClose ==
    /\ Live
    /\ variant \in PoolVariants
    /\ waited >= waitTarget
    /\ ~resultsClosed
    /\ resultsClosed' = TRUE
    /\ UNCHANGED <<call, inputVars, poolVars, results, published, spawned, jobVars,
                   outVars, mainExited, panicked>>

(***************************************************************************)
(* The reporter: processResults and Result.Print.                          *)
(***************************************************************************)
Line(r, isErr, text) == [id |-> r.id, err |-> isErr, text |-> text]

timeStamp == <<"[ms]\t">>

\* The lines printed for one result.
printLines(r) ==
    CASE variant = "pool32" ->
            IF r.err # Nil
            THEN <<Line(r, TRUE, <<"'">> \o r.domain \o <<"' error: ">> \o r.err)>>
            ELSE IF r.available
                 THEN <<Line(r, FALSE, r.domain \o <<" IS AVAILABLE">>)>>
                 ELSE <<Line(r, FALSE, r.domain \o <<" IS NOT AVAILABLE">>)>>
      [] variant = "poolmin" ->
            IF r.err # Nil
            THEN <<Line(r, TRUE, r.domain \o <<": ">> \o r.err)>>
            ELSE IF r.available THEN <<Line(r, FALSE, r.domain)>> ELSE <<>>
      [] OTHER ->
            IF r.err # Nil
            THEN IF variant = "pool"
                 THEN <<Line(r, TRUE, r.domain \o <<": ">> \o r.err)>>
                 ELSE <<Line(r, TRUE, r.err)>>
            ELSE LET stamp == IF debug THEN timeStamp ELSE <<>>
                 IN  IF r.available
                     THEN <<Line(r, FALSE, stamp
                                 \o (IF debug THEN <<"AVAILABLE\t">> ELSE <<>>)
                                 \o r.domain)>>
                     ELSE IF debug
                          THEN <<Line(r, FALSE, stamp \o <<"UNAVAILABLE\t">> \o r.domain)>>
                          ELSE <<>>

\* A reporter that stops at the first Failure.
continuesUntilFailure(r) == r.err = Nil

\* Whether the reporter goes on to the next result after result r.
continues(r) == TRUE

\* A reporter that takes the newest result in the channel.
recvNewest(ch) == ch[Len(ch)]

\* The value a receive takes from a channel: the oldest one in it.
recv(ch) == Head(ch)

\* for result := range results { ... }: one result is received and printed
processResults ==
    /\ Live
    /\ variant \in PoolVariants
    /\ results # <<>>
    /\ results' = Tail(results)
    /\ reported' = Append(reported, recv(results).id)
    /\ printed' = printed \o printLines(recv(results))
    /\ mainExited' = ~continues(recv(results))
    /\ UNCHANGED <<call, inputVars, poolVars, resultsClosed, published, spawned,
                   jobVars, panicked>>

\* The range loop over results ends and main returns.
processResultsEnd ==
    /\ Live
    /\ variant \in PoolVariants
    /\ rangeEnds(results, resultsClosed)
    /\ mainExited' = TRUE
    /\ UNCHANGED <<call, inputVars, poolVars, chanVars, spawned, jobVars, outVars, panicked>>

(***************************************************************************)
(* "tasks": main starts one goroutine per domain and collects.             *)
(***************************************************************************)
\* go Job{domain, results}.Run()
Spawn ==
    /\ Live
    /\ variant = "tasks"
    /\ spawned < N
    /\ spawned' = spawned + 1
    /\ Enter(spawned + 1)
    /\ UNCHANGED <<call, inputVars, poolVars, chanVars, peer, conn, res, nread, sends, dials,
                   outVars, mainExited, panicked>>

\* A collecting loop that stops one result short.
collectTargetShort == N - 1

\* Number of results main receives: for _ = range domains.
collectTarget == N

\* result := <-results; result.Print(*debug)
Collect ==
    /\ Live
    /\ variant = "tasks"
    /\ spawned = N
    /\ Len(reported) < collectTarget
    /\ results # <<>>
    /\ results' = Tail(results)
    /\ reported' = Append(reported, recv(results).id)
    /\ printed' = printed \o printLines(recv(results))
    /\ mainExited' = ~continues(recv(results))
    /\ UNCHANGED <<call, inputVars, poolVars, resultsClosed, published, spawned,
                   jobVars, panicked>>

\* The collecting loop ends and main returns.
CollectEnd ==
    /\ Live
    /\ variant = "tasks"
    /\ spawned = N
    /\ Len(reported) >= collectTarget
    /\ mainExited' = TRUE
    /\ UNCHANGED <<call, inputVars, poolVars, chanVars, spawned, jobVars, outVars, panicked>>

\* No function is called on its own.
NoCall == [fn |-> "none", arg |-> <<>>, returned |-> FALSE, value |-> <<>>]

(***************************************************************************)
(* Specification.                                                          *)
(***************************************************************************)
\* The channels are empty, the goroutines are at their first statement and
\* nothing has been looked up or printed.
Started ==
    /\ nextJob = 1
    /\ jobs = <<>>
    /\ jobsClosed = FALSE
    /\ ranging = workers
    /\ done = 0
    /\ waited = 0
    /\ results = <<>>
    /\ resultsClosed = FALSE
    /\ spawned = 0
    /\ pc = [i \in Ids |-> "new"]
    /\ peer = [i \in Ids |-> NoPeer]
    /\ conn = [i \in Ids |-> "none"]
    /\ res = [i \in Ids |-> <<>>]
    /\ nread = [i \in Ids |-> 0]
    /\ result = [i \in Ids |-> NoResult]
    /\ runs = [i \in Ids |-> 0]
    /\ sends = [i \in Ids |-> 0]
    /\ dials = [i \in Ids |-> 0]
    /\ reported = <<>>
    /\ printed = <<>>
    /\ published = <<>>
    /\ mainExited = FALSE
    /\ panicked = FALSE

\* The state once main has parsed its arguments, read stdin if asked to,
\* made its channels and started its goroutines.
Init ==
    /\ variant \in Variants
    /\ debug \in BOOLEAN
    /\ domains \in DomainLists
    \* "pool32" and "poolmin" have no -debug flag
    /\ variant \in {"pool32", "poolmin"} => ~debug
    \* The domains are the arguments or, when the sole argument is "-" (not in
    \* "pool32"), the words read from stdin.  "pool32" exits with the usage
    \* text when given no argument, and so does "poolmin", which can still
    \* read no domain at all from stdin.
    /\ variant = "pool32" => Len(domains) >= 1
    \* numDomains is the number of arguments in "pool", which sets it before
    \* it reads stdin and never again (src/chkdomain.go:195): 1 when the
    \* domains come from stdin.  "tasks" sets it again after the read
    \* (src/chkdomain.go:400).
    /\ numDomains \in {Len(domains)} \cup (IF variant = "pool" THEN {1} ELSE {})
    /\ Started
    /\ call = NoCall

Next ==
    \/ makeJobs \/ makeJobsClose
    \/ runJobs \/ runJobsDone
    \/ waitJobs \/ waitJobsClose
    \/ processResults \/ processResultsEnd
    \/ Spawn \/ Collect \/ CollectEnd
    \/ \E i \in Ids : Dial(i)
    \/ \E i \in Ids : Write(i)
    \/ \E i \in Ids : Read(i)
    \/ \E i \in Ids : Send(i)

Spec == Init /\ [][Next]_vars

\* Every goroutine that can take a step eventually takes one.
FairSpec == Spec /\ WF_vars(Next)

(***************************************************************************)
(* Functions called on their own.  CallSpec runs one call of one function  *)
(* of the program on an argument drawn from a bounded set; the variable    *)
(* `call` holds the function's name, its argument and, once it has         *)
(* returned, its value.                                                    *)
(***************************************************************************)
\* All texts of at most n characters drawn from chars.
Texts(chars, n) == UNION { [1..m -> chars] : m \in 0..n }

DomainChars == {"a", "-", ".", " "}

ExampleDomains ==
    { <<"g","o","o","g","l","e",".","c","o","m">>,
      <<"e","x","a","m","p","l","e",".","c","o",".","u","k">>,
      <<"w","w","w",".","e","x","a","m","p","l","e",".","c","o","m">> }

DomainTexts == Texts(DomainChars, MaxLen) \cup ExampleDomains

StdinChars == {"a", "b", " ", "\n", "\t"}

ExampleStdin ==
    <<"a",".","c","o","m","\n","b",".","c","o","m"," "," ","c",".","c","o","m","\n">>

StdinTexts == Texts(StdinChars, MaxStdin) \cup {ExampleStdin}

\* What one conn.Read may return: no byte or a chunk, with nil, io.EOF or
\* another error.
ReadOutcomes ==
    { Rd(n, e) : n \in {<<>>, <<"No match for">>, <<"Registrar:">>},
                 e \in {"nil", "EOF", "err"} }

ReadScripts == UNION { [1..m -> ReadOutcomes] : m \in 1..MaxReads }

ArgTokens == {"-debug", "-help", "-", "a.co"}

ArgLists == UNION { [1..m -> ArgTokens] : m \in 0..MaxArgs }

\* bufio.Reader.ReadString('\n') on what is left of the input: the text up to
\* and including the first newline, or all of it together with io.EOF.
ReadString(s) ==
    IF \E k \in 1..Len(s) : s[k] = "\n"
    THEN LET k == CHOOSE k \in 1..Len(s) :
                      s[k] = "\n" /\ \A j \in 1..(k-1) : s[j] # "\n"
         IN  [line |-> SubSeq(s, 1, k), rest |-> SubSeq(s, k+1, Len(s)), err |-> "nil"]
    ELSE [line |-> s, rest |-> <<>>, err |-> "EOF"]

RECURSIVE readLines(_)
readLines(stdin) ==
    LET r == ReadString(stdin) IN
    IF r.err = "EOF"
    THEN <<>>
    ELSE <<SubSeq(r.line, 1, Len(r.line) - 1)>> \o readLines(r.rest)

\* strings.TrimRight(s, c) for a one-character cutset
RECURSIVE TrimRight(_, _)
TrimRight(s, c) ==
    IF s # <<>> /\ s[Len(s)] = c THEN TrimRight(SubSeq(s, 1, Len(s) - 1), c) ELSE s

\* strings.TrimLeft(s, c) for a one-character cutset
RECURSIVE TrimLeft(_, _)
TrimLeft(s, c) ==
    IF s # <<>> /\ s[1] = c THEN TrimLeft(Tail(s), c) ELSE s

\* strings.Trim(s, c)
Trim(s, c) == TrimLeft(TrimRight(s, c), c)

RECURSIVE readWords(_)
readWords(stdin) ==
    LET r       == ReadString(stdin)
        pieces  == SplitOn(TrimRight(r.line, "\n"), " ")
        trimmed == [k \in 1..Len(pieces) |-> Trim(pieces[k], " ")]
        words   == SelectSeq(trimmed, LAMBDA word : word # <<>>)
    IN  words \o (IF r.err = "EOF" THEN <<>> ELSE readWords(r.rest))

\* The read loop of whois on the successive outcomes of conn.Read, res being
\* what it has accumulated: the (string, error) whois returns, or Pending when
\* the loop is still reading after the last outcome.
Pending == [output |-> <<>>, err |-> Nil, pending |-> TRUE]

RECURSIVE whoisReads(_, _)
whoisReads(reads, acc) ==
    IF reads = <<>>
    THEN Pending
    ELSE LET ev == Head(reads) IN
         CASE readLoop(ev) = "fail" ->
                  [output |-> <<>>, err |-> ReadErr(ev.err), pending |-> FALSE]
           [] readLoop(ev) = "stop" ->
                  [output |-> acc \o ev.n, err |-> Nil, pending |-> FALSE]
           [] OTHER -> whoisReads(Tail(reads), acc \o ev.n)

\* The flags the flag package has been told of.
Flags == IF variant = "pool" THEN {"-debug", "-help"} ELSE {"-debug"}

\* An argument that flag.Parse takes for a flag.
IsFlag(a) == a \in {"-debug", "-help"}

\* flag.Args(): the arguments after the leading flags
RECURSIVE flagArgs(_)
flagArgs(args) ==
    IF args # <<>> /\ IsFlag(Head(args)) THEN flagArgs(Tail(args)) ELSE args

\* The flags flag.Parse has seen.
flagsGiven(args) == { args[k] : k \in 1..(Len(args) - Len(flagArgs(args))) }

\* The start of main on the arguments os.Args[1:]: main exits at once with a
\* status, or goes on with its domains ("-" standing for what is read from
\* stdin) and ends with status 0 when it returns.
Exit(status) == [exits |-> TRUE, status |-> status, domains |-> <<>>]
Run(ds) == [exits |-> FALSE, status |-> 0, domains |-> ds]

mainStart(osArgs) ==
    CASE variant = "pool" ->
            IF Len(osArgs) + 1 < 2 THEN Exit(1)
            ELSE IF "-help" \in flagsGiven(osArgs) THEN Exit(0)
            ELSE Run(flagArgs(osArgs))
      [] variant = "tasks" ->
            \* flag.Parse calls flag.Usage, which exits, on a flag it has not
            \* been told of
            IF flagsGiven(osArgs) \ Flags # {} THEN Exit(1)
            ELSE IF Len(osArgs) + 1 < 2 THEN Exit(1)
            ELSE Run(flagArgs(osArgs))
      [] variant = "pool32" ->
            IF Len(osArgs) + 1 = 1 \/ osArgs[1] \in {"-h", "--help"} THEN Exit(1)
            ELSE Run(osArgs)
      [] OTHER ->
            IF Len(osArgs) + 1 = 1 THEN Exit(1)
            ELSE IF osArgs[1] \in {"-h", "--help"} THEN Exit(0)
            ELSE Run(osArgs)

NewCall(fn, arg) == [fn |-> fn, arg |-> arg, returned |-> FALSE, value |-> <<>>]

Return(value) == call' = [call EXCEPT !.returned = TRUE, !.value = value]

isDomainValidCall ==
    /\ call.fn = "isDomainValid" /\ ~call.returned
    /\ Return(isDomainValid(call.arg))
    /\ UNCHANGED runVars

getWhoisServerCall ==
    /\ call.fn = "getWhoisServer" /\ ~call.returned
    /\ Return(getWhoisServer(call.arg))
    /\ UNCHANGED runVars

readLinesCall ==
    /\ call.fn = "readLines" /\ ~call.returned
    /\ Return(readLines(call.arg))
    /\ UNCHANGED runVars

readWordsCall ==
    /\ call.fn = "readWords" /\ ~call.returned
    /\ Return(readWords(call.arg))
    /\ UNCHANGED runVars

\* whois on a valid domain whose dial and write succeeded, when its read
\* loop ends within the outcomes given.
whoisCall ==
    /\ call.fn = "whois" /\ ~call.returned
    /\ ~whoisReads(call.arg, <<>>).pending
    /\ Return(whoisReads(call.arg, <<>>))
    /\ UNCHANGED runVars

mainCall ==
    /\ call.fn = "main" /\ ~call.returned
    /\ Return(mainStart(call.arg))
    /\ UNCHANGED runVars

\* One function is about to be called.  isDomainValid and getWhoisServer read
\* the same in every variant and are called in one; readLines, readWords and
\* whois are called in the variants that have them.
CallInit ==
    /\ variant \in Variants
    /\ debug = FALSE
    /\ domains = <<>>
    /\ numDomains = 0
    /\ Started
    /\ \/ /\ variant = "pool"
          /\ \E fn \in {"isDomainValid", "getWhoisServer"}, d \in DomainTexts :
                call = NewCall(fn, d)
       \/ /\ variant \in {"pool", "poolmin"}
          /\ \E t \in StdinTexts : call = NewCall("readLines", t)
       \/ /\ variant = "tasks"
          /\ \E t \in StdinTexts : call = NewCall("readWords", t)
       \/ /\ variant # "pool32"
          /\ \E r \in ReadScripts : call = NewCall("whois", r)
       \/ \E a \in ArgLists : call = NewCall("main", a)

CallNext ==
    \/ isDomainValidCall \/ getWhoisServerCall
    \/ readLinesCall \/ readWordsCall
    \/ whoisCall \/ mainCall

CallSpec == CallInit /\ [][CallNext]_vars

(***************************************************************************)
(* Vocabulary of the properties.                                           *)
(***************************************************************************)
\* Number of results the reporter has received for domain i.
Reports(i) == Cardinality({k \in 1..Len(reported) : reported[k] = i})

\* t contains s as a contiguous piece.
Contains(t, s) ==
    \E k \in 0..(Len(t) - Len(s)) : SubSeq(t, k + 1, k + Len(s)) = s

\* The whole text a peer sends before it ends the stream.
RECURSIVE Response(_)
Response(reads) ==
    IF reads = <<>> THEN <<>> ELSE Head(reads).n \o Response(Tail(reads))

\* A read of zero bytes that does not signal end-of-stream.
ZeroRead(ev) == ev.n = <<>> /\ ev.err # "EOF"

\* The lookup of domain i is stuck in a network call that never returns.
Blocked(i) == peer[i].dial = "block"

\* The lookup of domain i has met a failure: invalid domain, dial error,
\* write error or read error.
Failed(i) ==
    \/ ~isDomainValid(domains[i])
    \/ peer[i].dial = "err"
    \/ peer[i].write = "err"
    \/ \E k \in 1..Len(peer[i].reads) : ZeroRead(peer[i].reads[k])

\* The lookup of domain i ran to its end without a failure.
Succeeded(i) ==
    /\ pc[i] \in {"send", "done"}
    /\ peer[i].dial = "ok"
    /\ peer[i].write = "ok"
    /\ ~Failed(i)

\* main has returned, every Run has returned, every worker has sent done, the
\* waiter has closed results, the reporter has drained it and the producer has
\* queued every job.
Terminated ==
    /\ mainExited
    /\ ~panicked
    /\ \A i \in Ids : pc[i] = "done"
    /\ results = <<>>
    /\ variant \in PoolVariants =>
          /\ nextJob = N + 1 /\ jobs = <<>>
          /\ ranging = 0 /\ done = 0 /\ waited = workers
          /\ resultsClosed
    /\ variant = "tasks" => spawned = N

\* The producer has run to its end: it has closed jobs.
ProducerFinished == variant \in PoolVariants => jobsClosed

(***************************************************************************)
(* C1.  In each worker-pool variant, once the results channel is closed    *)
(* and drained the reporter has received exactly N results, exactly one    *)
(* for each input domain occurrence.                                       *)
(***************************************************************************)
C1_PoolReportsEachDomainOnce ==
    (variant \in PoolVariants /\ mainExited) =>
        /\ Len(reported) = N
        /\ \A i \in Ids : Reports(i) = 1

(***************************************************************************)
(* C2.  In the one-task-per-domain variant Run is entered at most once per *)
(* domain and sends at most one Result; a task that has returned has sent  *)
(* exactly one; and when main returns, every domain has had exactly one    *)
(* task, every task has sent exactly one Result, and main has received     *)
(* exactly N results, one for each domain.                                 *)
(***************************************************************************)
C2_TasksOneResultPerDomain ==
    variant = "tasks" =>
        /\ \A i \in Ids : /\ runs[i] <= 1
                          /\ sends[i] <= 1
                          /\ pc[i] = "done" => sends[i] = 1
        /\ mainExited =>
              /\ Len(reported) = N
              /\ \A i \in Ids : runs[i] = 1 /\ sends[i] = 1 /\ Reports(i) = 1

\* main has returned after collecting the results of two domains, one of
\* them a failure.
C2_Witness ==
    /\ variant = "tasks" /\ mainExited
    /\ N >= 2
    /\ \E i \in Ids : result[i].err # Nil
    /\ \E i \in Ids : Succeeded(i)

(***************************************************************************)
(* C3, as claimed.  When the process has terminated, the producer, every   *)
(* worker or task, the waiter and the reporter have all finished.          *)
(***************************************************************************)
C3_AllGoroutinesFinish == mainExited => (Terminated /\ ProducerFinished)

\* How far the goroutines have got: every step of the program adds to it, and
\* it cannot grow beyond a bound fixed by the input, so no run goes on forever.
Rank(p) ==
    CASE p = "new" -> 0 [] p = "dial" -> 1 [] p = "write" -> 2
      [] p = "read" -> 3 [] p = "send" -> 4 [] OTHER -> 5

RECURSIVE LookupProgress(_)
LookupProgress(n) ==
    IF n = 0 THEN 0
    ELSE Rank(pc[n]) + nread[n] + dials[n] + LookupProgress(n - 1)

Progress ==
    nextJob + spawned + done + 2 * waited + Len(reported)
    + LookupProgress(N)
    + (IF jobsClosed THEN 1 ELSE 0) + (IF resultsClosed THEN 1 ELSE 0)
    + (IF mainExited THEN 1 ELSE 0) + (IF panicked THEN 1 ELSE 0)

(***************************************************************************)
(* C3, amended.  If no network operation blocks forever, the process       *)
(* terminates without a panic and without a goroutine left blocked on a    *)
(* channel: every step makes progress, and in every state in which no      *)
(* goroutine can take a step either some lookup is blocked in the network  *)
(* or main has returned, every Run has returned, every worker has sent     *)
(* done, the waiter has closed results, the reporter has drained it and    *)
(* the producer has queued every job; the producer has also closed jobs    *)
(* by then if at least one worker was started.                             *)
(***************************************************************************)
C3_Terminates ==
    /\ [](~ENABLED Next =>
            \/ Terminated /\ (workers > 0 => ProducerFinished)
            \/ \E i \in Ids : Blocked(i))
    /\ [][Progress' > Progress]_vars

\* A terminated run of a pool with two domains whose lookups both failed.
C3_Witness ==
    /\ Terminated /\ ProducerFinished
    /\ variant \in PoolVariants
    /\ N >= 2
    /\ \A i \in Ids : Failed(i)

(***************************************************************************)
(* C4.  When main has returned no lookup is outstanding: every input       *)
(* domain's Run has been entered once and has returned, and no job is      *)
(* left in the jobs queue.                                                 *)
(***************************************************************************)
C4_ExitOnlyWhenNoLookupOutstanding ==
    mainExited =>
        /\ jobs = <<>>
        /\ \A i \in Ids : pc[i] = "done" /\ runs[i] = 1

\* The single worker of "pool" reading stdin has run two lookups, and main
\* has returned.
C4_Witness ==
    /\ mainExited
    /\ variant = "pool" /\ numDomains = 1
    /\ N >= 2
    /\ \A i \in Ids : dials[i] = 1

(***************************************************************************)
(* C5.  Failure isolation: the process never panics, and when main returns *)
(* every Result that any lookup sent has been received by the reporter,    *)
(* and every domain whose own lookup did not fail has been reported        *)
(* exactly once, as a Success whose availability is the one its own        *)
(* server's response determines, however many of the other lookups failed. *)
(***************************************************************************)
C5_FailureIsolation ==
    /\ ~panicked
    /\ mainExited =>
          \A j \in Ids :
              /\ Reports(j) = sends[j]
              /\ Succeeded(j) =>
                    /\ Reports(j) = 1
                    /\ result[j].err = Nil
                    /\ result[j].available = isDomainAvailable(Response(peer[j].reads))
                    /\ result[j].domain = domains[j]

\* main has returned from a run in which one lookup failed and another
\* succeeded.
C5_Witness ==
    /\ mainExited
    /\ \E i, j \in Ids : /\ i # j
                         /\ Failed(i)
                         /\ Succeeded(j) /\ result[j].available

(***************************************************************************)
(* C6.  A lookup that blocks forever does not stall the others; in         *)
(* particular, in "pool" with two or more domains read from stdin (so      *)
(* numDomains is 1), every domain whose lookup does not block is           *)
(* eventually reported.                                                    *)
(***************************************************************************)
C6_BlockedLookupDoesNotStallOthers ==
    (variant = "pool" /\ numDomains = 1 /\ N >= 2) =>
        <>(\A j \in Ids : Blocked(j) \/ Reports(j) = 1)

(***************************************************************************)
(* C7.  No connection opened by a lookup that has returned is still open,  *)
(* and when main returns no connection is open.                            *)
(***************************************************************************)
C7_ConnectionsClosed ==
    /\ \A i \in Ids : pc[i] = "done" => conn[i] # "open"
    /\ mainExited => \A i \in Ids : conn[i] # "open"

(***************************************************************************)
(* C8.  In the variants with a whois function, a lookup whose read loop    *)
(* met a read of zero bytes without end-of-stream has a Result with a      *)
(* non-nil error.                                                          *)
(***************************************************************************)
C8_ZeroByteReadFails ==
    \A i \in Ids :
        ( /\ variant # "pool32"
          /\ pc[i] \in {"send", "done"}
          /\ \E k \in 1..Len(peer[i].reads) : ZeroRead(peer[i].reads[k]) )
        => result[i].err # Nil

(***************************************************************************)
(* C9.  Without -debug, a received result has a printed line exactly when  *)
(* it is a Failure or an available Success, so the non-error lines are     *)
(* those of the available domains; with -debug every Success has a line    *)
(* annotated AVAILABLE or UNAVAILABLE.                                     *)
(***************************************************************************)
HasLine(i) == \E k \in 1..Len(printed) : printed[k].id = i

C9_ReportingRule ==
    \A n \in 1..Len(reported) :
        LET i == reported[n] IN
        /\ ~debug => (HasLine(i) <=> (result[i].err # Nil \/ result[i].available))
        /\ (debug /\ result[i].err = Nil) =>
              \E k \in 1..Len(printed) :
                  /\ printed[k].id = i
                  /\ Contains(printed[k].text,
                              IF result[i].available THEN <<"AVAILABLE\t">>
                              ELSE <<"UNAVAILABLE\t">>)

(***************************************************************************)
(* C10.  Every Failure result the reporter received has a printed line,    *)
(* and that line contains both the domain of the job and the error         *)
(* message.                                                                *)
(***************************************************************************)
C10_FailureLineNamesDomainAndError ==
    \A n \in 1..Len(reported) :
        LET i == reported[n] IN
        result[i].err # Nil =>
            \E k \in 1..Len(printed) :
                /\ printed[k].id = i
                /\ Contains(printed[k].text, domains[i])
                /\ Contains(printed[k].text, result[i].err)

(***************************************************************************)
(* C11.  isDomainValid(d) is true exactly when d is one or more            *)
(* dot-separated labels, each of 1 to 63 alphanumerics and hyphens that    *)
(* neither starts nor ends with a hyphen, followed by a final label of at  *)
(* least 2 alphabetic characters; so it is false for a text with           *)
(* whitespace, a leading hyphen, consecutive dots or no TLD.               *)
(***************************************************************************)
\* The dots of d, with the positions just before and just after d.
Bounds(d) == {0, Len(d) + 1} \cup {k \in 1..Len(d) : d[k] = "."}

\* The label of d between the neighbouring bounds p and q is well formed.
LabelOk(d, p, q) ==
    IF q = Len(d) + 1
    THEN /\ q - p - 1 >= 2
         /\ \A j \in (p+1)..(q-1) : d[j] \in Alpha
    ELSE /\ q - p - 1 \in 1..63
         /\ \A j \in (p+1)..(q-1) : d[j] \in AlNum \cup {"-"}
         /\ d[p+1] # "-"
         /\ d[q-1] # "-"

LabelGrammar(d) ==
    /\ Cardinality(Bounds(d)) >= 3
    /\ \A p \in Bounds(d), q \in Bounds(d) :
          (p < q /\ ~\E m \in Bounds(d) : p < m /\ m < q) => LabelOk(d, p, q)

C11_ValidIffLabelGrammar ==
    (call.fn = "isDomainValid" /\ call.returned) =>
        (call.value <=> LabelGrammar(call.arg))

(***************************************************************************)
(* C12.  A domain is attempted once and never retried: it is dialled at    *)
(* most once, never when it fails validation, and by the time main returns *)
(* exactly once when it passes validation, whatever the dial, the write or *)
(* the reads come to.                                                      *)
(***************************************************************************)
C12_OneDialPerValidDomain ==
    \A i \in Ids :
        /\ dials[i] <= 1
        /\ ~isDomainValid(domains[i]) => dials[i] = 0
        /\ (isDomainValid(domains[i]) /\ (mainExited \/ pc[i] \in {"write", "read", "send", "done"}))
              => dials[i] = 1

\* main has returned after one domain was refused without a dial and another
\* was dialled once and failed.
C12_Witness ==
    /\ mainExited
    /\ \E i, j \in Ids :
          /\ ~isDomainValid(domains[i]) /\ runs[i] = 1 /\ dials[i] = 0
          /\ isDomainValid(domains[j]) /\ Failed(j) /\ dials[j] = 1

(***************************************************************************)
(* C13.  Started with no domain argument, be it with no argument at all or *)
(* with option flags only, main exits with a non-zero status before it     *)
(* makes a job or touches the network.                                     *)
(***************************************************************************)
\* The arguments name no domain.  "pool" and "tasks" parse option flags; the
\* other two variants have none and take every argument for a domain.
NoDomainArgs(osArgs) ==
    IF variant \in {"pool", "tasks"}
    THEN \A k \in 1..Len(osArgs) : osArgs[k] \in {"-debug", "-help"}
    ELSE osArgs = <<>>

C13_NoDomainsExitsNonZero ==
    (call.fn = "main" /\ call.returned /\ NoDomainArgs(call.arg)) =>
        (call.value.exits /\ call.value.status # 0)

(***************************************************************************)
(* C14.  With "-" as the sole argument the domains are the maximal runs of *)
(* non-whitespace characters of standard input, in order: several on one   *)
(* line, separated by runs of spaces, the last line ending in a newline or *)
(* not.  "a.com\nb.com  c.com\n" gives a.com, b.com, c.com.                *)
(***************************************************************************)
Whitespace == {" ", "\n", "\t"}

\* Positions where a token of s starts.
TokenStarts(s) ==
    {k \in 1..Len(s) : s[k] \notin Whitespace /\ (k = 1 \/ s[k-1] \in Whitespace)}

\* The token of s that starts at k.
TokenAt(s, k) ==
    LET e == CHOOSE e \in k..Len(s) :
                 /\ \A j \in k..e : s[j] \notin Whitespace
                 /\ (e = Len(s) \/ s[e+1] \in Whitespace)
    IN  SubSeq(s, k, e)

Tokens(s) ==
    LET starts == TokenStarts(s)
        kth(n) == CHOOSE k \in starts : Cardinality({m \in starts : m < k}) = n - 1
    IN  [n \in 1..Cardinality(starts) |-> TokenAt(s, kth(n))]

C14_StdinDomainsAreTokens ==
    (call.fn \in {"readLines", "readWords"} /\ call.returned) =>
        call.value = Tokens(call.arg)

(***************************************************************************)
(* C15.  A lookup reads only after it has written its request, and when    *)
(* the write fails it reads nothing and its result is a Failure that       *)
(* carries the write error.                                                *)
(***************************************************************************)
C15_WriteFailureIsFailure ==
    \A i \in Ids :
        /\ nread[i] > 0 => peer[i].write # "none"
        /\ peer[i].write = "err" =>
              /\ nread[i] = 0
              /\ pc[i] \in {"send", "done"} =>
                    /\ result[i].err # Nil
                    /\ Contains(result[i].err, wrtErrText)

(***************************************************************************)
(* C16.  getWhoisServer(d) is L followed by ".whois-servers.net:43", L     *)
(* being the last label of d when d has at most two dot-separated labels   *)
(* and its last two labels joined by a dot when it has more: google.com    *)
(* gives com, example.co.uk gives co.uk, www.example.com gives             *)
(* example.com.  For a domain isDomainValid accepts, L is not empty.       *)
(***************************************************************************)
Dots(d) == {k \in 1..Len(d) : d[k] = "."}

\* What follows the n-th dot of d counted from its end; all of d when it has
\* fewer dots.
AfterDotFromEnd(d, n) ==
    LET cut == IF Cardinality(Dots(d)) >= n
               THEN CHOOSE k \in Dots(d) : Cardinality({m \in Dots(d) : m > k}) = n - 1
               ELSE 0
    IN  SubSeq(d, cut + 1, Len(d))

ServerLabels(d) ==
    IF Cardinality(Dots(d)) + 1 <= 2 THEN AfterDotFromEnd(d, 1) ELSE AfterDotFromEnd(d, 2)

C16_WhoisServerOfLastLabels ==
    (call.fn = "getWhoisServer" /\ call.returned) =>
        /\ call.value = ServerLabels(call.arg) \o <<".whois-servers.net:43">>
        /\ isDomainValid(call.arg) => Len(call.value) >= 2
        /\ call.arg = <<"g","o","o","g","l","e",".","c","o","m">> =>
              call.value = <<"c","o","m",".whois-servers.net:43">>
        /\ call.arg = <<"e","x","a","m","p","l","e",".","c","o",".","u","k">> =>
              call.value = <<"c","o",".","u","k",".whois-servers.net:43">>
        /\ call.arg = <<"w","w","w",".","e","x","a","m","p","l","e",".","c","o","m">> =>
              call.value = <<"e","x","a","m","p","l","e",".","c","o","m",
                             ".whois-servers.net:43">>

\* getWhoisServer has returned the last two labels of a valid domain of three.
C16_Witness ==
    /\ call.fn = "getWhoisServer"
    /\ call.returned
    /\ isDomainValid(call.arg)
    /\ Cardinality(Dots(call.arg)) = 2
    /\ call.value = <<"a", ".", "a", "a", ".whois-servers.net:43">>

(***************************************************************************)
(* C17.  In each worker-pool variant the lookups in flight are never more  *)
(* than the workers started (the fixed pool size; min(100, number of       *)
(* domains); the number of arguments counted before stdin is read), and a  *)
(* job taken from the jobs queue is run once, by one worker: it is no      *)
(* longer in the queue, and every worker is either waiting at the queue,   *)
(* running one job, or finished.                                           *)
(***************************************************************************)
InFlight == Cardinality({i \in Ids : pc[i] \in {"dial", "write", "read", "send"}})

WorkersStarted ==
    CASE variant = "pool32"  -> FixedWorkers
      [] variant = "poolmin" -> IF N < PoolCap THEN N ELSE PoolCap
      [] OTHER               -> numDomains

Queued(i) == Cardinality({k \in 1..Len(jobs) : jobs[k] = i})

C17_InFlightWithinWorkers ==
    variant \in PoolVariants =>
        /\ InFlight <= WorkersStarted
        /\ InFlight + ranging + done + waited = WorkersStarted
        /\ \A i \in Ids :
              /\ runs[i] <= 1
              /\ runs[i] = 1 <=> pc[i] # "new"
              /\ Queued(i) <= 1
              /\ runs[i] = 1 => (Queued(i) = 0 /\ nextJob > i)

\* There are more domains than the cap allows workers, every worker is
\* running a lookup and a job waits in the queue.
C17_Witness ==
    /\ variant = "poolmin"
    /\ N > PoolCap
    /\ InFlight = PoolCap
    /\ jobs # <<>>

(***************************************************************************)
(* C18.  Results are reported in the order they complete, as they arrive:  *)
(* the reporter receives the results in the order they were published on   *)
(* the results channel, the line of a result published earlier is printed  *)
(* before the line of one published later, and a result waiting in the     *)
(* channel can be received and printed whatever the lookups still running  *)
(* are doing ("tasks": once main has started its last goroutine).          *)
(***************************************************************************)
\* Position of the result of domain i in the order of publication.
PublishedAt(i) == CHOOSE k \in 1..Len(published) : published[k] = i

C18_ReportedInCompletionOrder ==
    /\ Len(reported) <= Len(published)
    /\ reported = SubSeq(published, 1, Len(reported))
    /\ \A a, b \in 1..Len(printed) :
          a < b => PublishedAt(printed[a].id) <= PublishedAt(printed[b].id)
    /\ (Live /\ results # <<>> /\ (variant = "tasks" => spawned = N)) =>
          ENABLED (processResults \/ Collect)

\* Two results were published in the reverse of the order of the input and
\* their lines printed in that order.
C18_Witness ==
    /\ published = <<2, 1>>
    /\ Len(printed) = 2
    /\ printed[1].id = 2
    /\ printed[2].id = 1

(***************************************************************************)
(* C19.  Whatever the reads return, whois returns either a non-empty       *)
(* string with a nil error or the empty string with an error, and nothing  *)
(* else, also when the peer closes the connection without sending a byte;  *)
(* the string of a success is every chunk read, in order, the bytes that   *)
(* came along with end-of-stream included.                                 *)
(***************************************************************************)
\* The reads whois made before it returned: those up to the first one that
\* signals end-of-stream or fails with no byte.
RECURSIVE ReadsMade(_)
ReadsMade(reads) ==
    IF reads = <<>> THEN <<>>
    ELSE IF Head(reads).err = "EOF" \/ ZeroRead(Head(reads))
         THEN <<Head(reads)>>
         ELSE <<Head(reads)>> \o ReadsMade(Tail(reads))

C19_WhoisReturnsStringOrError ==
    (call.fn = "whois" /\ call.returned) =>
        /\ \/ (call.value.output # <<>> /\ call.value.err = Nil)
           \/ (call.value.output = <<>> /\ call.value.err # Nil)
        /\ call.value.err = Nil => call.value.output = Response(ReadsMade(call.arg))

(***************************************************************************)
(* C20.  In each worker-pool variant a worker sends its one done signal    *)
(* only after the jobs queue is closed and drained, the results channel is *)
(* closed only after every started worker has sent done, and no Result is  *)
(* ever sent on the closed results channel: the process never panics.      *)
(***************************************************************************)
\* Number of done signals sent so far.
DoneSent == done + waited

C20_DoneThenCloseProtocol ==
    variant \in PoolVariants =>
        /\ ~panicked
        /\ DoneSent <= workers
        /\ DoneSent + ranging + InFlight = workers
        /\ DoneSent > 0 => (jobsClosed /\ jobs = <<>> /\ nextJob = N + 1)
        /\ resultsClosed =>
              /\ waited = workers
              /\ done = 0 /\ ranging = 0 /\ InFlight = 0
              /\ \A i \in Ids : pc[i] = "done"
        /\ mainExited => (resultsClosed /\ DoneSent = workers)

\* results is closed after two workers ran two lookups, one of which failed,
\* and sent done.
C20_Witness ==
    /\ variant \in PoolVariants
    /\ resultsClosed
    /\ workers >= 2
    /\ waited = workers
    /\ \E i, j \in Ids : i # j /\ Failed(i) /\ Succeeded(j)

====
